---- MODULE Spec2Model ----
(***************************************************************************)
(* Model of Web_Data_Spool.py: the chunked extraction done by              *)
(* fetch_data_in_chunks, the two serializers used for the download         *)
(* buttons, and the Streamlit script main() that drives them.              *)
(*                                                                         *)
(* Text is modelled as a sequence of one-character strings so that the     *)
(* conversions of the program (strftime, the SQL date literal, to_csv,     *)
(* encode('utf-8')) are computed character by character.                   *)
(***************************************************************************)
EXTENDS Integers, Sequences, FiniteSets, TLC

VARIABLES
    store,           \* the PostgreSQL relations: identifier -> rows in query order
    pc,              \* position of the running script / call
    caller,          \* who called fetch_data_in_chunks: "main" or "api"
    selected_table,  \* value returned by st.selectbox (main only)
    start_date,      \* fetch_data_in_chunks argument (a 'YYYY-MM-DD' text)
    end_date,        \* fetch_data_in_chunks argument (a 'YYYY-MM-DD' text)
    table_name,      \* fetch_data_in_chunks argument
    chunk_size,      \* fetch_data_in_chunks argument
    conn,            \* the local conn: "none", "open" or "closed"
    query,           \* the query text and its bound parameters
    cursor,          \* rows of the executed query the driver has not delivered yet
    has_read_data,   \* the driver has delivered a non-empty batch
    data,            \* the accumulating DataFrame
    delivered,       \* history: the batches the driver has yielded, in order
    result,          \* value returned by fetch_data_in_chunks
    cause,           \* the exception caught at line 42, "none" when nothing was raised
    raised,          \* exception that left main uncaught, "none" otherwise
    ui,              \* what the script has rendered in this run
    prev,            \* history: table returned by the preceding call with the same query
    prevChunk        \* history: chunk_size of that preceding call

vars == <<store, pc, caller, selected_table, start_date, end_date, table_name,
          chunk_size, conn, query, cursor, has_read_data, data, delivered,
          result, cause, raised, ui, prev, prevChunk>>

fetchVars == <<conn, query, cursor, has_read_data, data, delivered, result, cause>>

-----------------------------------------------------------------------------
(* Bounds of the model *)

MaxRows == 4

MaxDay == 2

MaxChunk == 2

-----------------------------------------------------------------------------
(* Program constants *)

DefaultChunkSize == 50000

table_mapping ==
    [ f \in {"Deposit", "Withdrawals", "Trongrid", "OKX Data",
             "App Transactions", "Nobblet for Finance", "Bitnob for Nobblet"} |->
        CASE f = "Deposit"             -> "data_spool.b2c_collections"
          [] f = "Withdrawals"         -> "data_spool.b2c_payouts"
          [] f = "Trongrid"            -> "data_spool.trongrid"
          [] f = "OKX Data"            -> "data_spool.okx_data"
          [] f = "App Transactions"    -> "data_spool.in_app_transactions"
          [] f = "Nobblet for Finance" -> "data_spool.nobblet_finance"
          [] f = "Bitnob for Nobblet"  -> "data_spool.nobblet_bitnob_records" ]

FriendlyNames == DOMAIN table_mapping

KnownIdentifiers == { table_mapping[f] : f \in FriendlyNames }

\* A selection that is not a key of table_mapping.
UnknownFriendlyName == "Refunds"

\* A relation of the database that no friendly name maps to.
OtherRelation == "data_spool.audit_log"

Relations == KnownIdentifiers \cup {OtherRelation}

\* The identifiers direct calls of fetch_data_in_chunks are tried with.
ApiRelations == {"data_spool.b2c_collections", "data_spool.b2c_payouts", OtherRelation}

Columns == <<"transaction_date", "narration">>

\* The text of the narration cells: it holds the delimiter and the quote character.
Narrations == { <<"a", ",", "\"", "b">> }

Days == 1..MaxDay

Row == [transaction_date : Days, narration : Narrations]

-----------------------------------------------------------------------------
(* Dates and their textual form *)

Digit == <<"0", "1", "2", "3", "4", "5", "6", "7", "8", "9">>

DigitValue(c) == CHOOSE v \in 0..9 : Digit[v + 1] = c

\* date.strftime('%Y-%m-%d') for the days of January 2024
strftime(d) ==
    <<"2", "0", "2", "4", "-", "0", "1", "-">> \o <<Digit[(d \div 10) + 1], Digit[(d % 10) + 1]>>

\* the day the database reads from a 'YYYY-MM-DD' literal
SqlDate(s) == DigitValue(s[9]) * 10 + DigitValue(s[10])

DateTexts == { strftime(d) : d \in Days }

-----------------------------------------------------------------------------
(* DataFrames *)

None == [kind |-> "None", columns |-> <<>>, rows |-> <<>>]

Frame(cols, rs) == [kind |-> "DataFrame", columns |-> cols, rows |-> rs]

\* pd.DataFrame()
EmptyFrame == Frame(<<>>, <<>>)

IsIn(x, s) == \E i \in 1..Len(s) : s[i] = x

\* Concat with the new batch put in front of the accumulated rows
ConcatPrepend(a, b) ==
    Frame(a.columns \o SelectSeq(b.columns, LAMBDA c : ~IsIn(c, a.columns)),
          b.rows \o a.rows)

\* pd.concat([a, b], ignore_index=True): the columns of a, then those of b that
\* a lacks; the rows of a followed by the rows of b.
Concat(a, b) ==
    Frame(a.columns \o SelectSeq(b.columns, LAMBDA c : ~IsIn(c, a.columns)),
          a.rows \o b.rows)

-----------------------------------------------------------------------------
(* The database and the driver *)

\* SELECT * FROM t WHERE transaction_date BETWEEN :start_date AND :end_date
QueryRows(t, s, e) ==
    SelectSeq(store[t], LAMBDA r : /\ SqlDate(s) <= r.transaction_date
                                   /\ r.transaction_date <= SqlDate(e))

BuildQuery(t, s, e) ==
    [from |-> t, where |-> "transaction_date BETWEEN :start_date AND :end_date",
     params |-> [start_date |-> s, end_date |-> e]]

NoQuery == [from |-> "", where |-> "", params |-> [start_date |-> <<>>, end_date |-> <<>>]]

Min(a, b) == IF a < b THEN a ELSE b

\* result.fetchmany(n)
FetchMany(cur, n) == SubSeq(cur, 1, Min(n, Len(cur)))

\* Rest that loses the row following each batch
RestSkipsOne(cur, n) == SubSeq(cur, Min(n, Len(cur)) + 2, Len(cur))

\* the rows left in the cursor after fetchmany(n)
Rest(cur, n) == SubSeq(cur, Min(n, Len(cur)) + 1, Len(cur))

RECURSIVE Flatten(_)
Flatten(bs) == IF bs = <<>> THEN <<>> ELSE Head(bs) \o Flatten(Tail(bs))

-----------------------------------------------------------------------------
(* Serializers *)

Lower == <<"a", "b", "c", "d", "e", "f", "g", "h", "i", "j", "k", "l", "m",
           "n", "o", "p", "q", "r", "s", "t", "u", "v", "w", "x", "y", "z">>

\* the UTF-8 code of a character of the texts the model handles
Utf8Code(c) ==
    CASE c = "\n" -> 10
      [] c = "\"" -> 34
      [] c = ","  -> 44
      [] c = "-"  -> 45
      [] c = "_"  -> 95
      [] IsIn(c, Digit) -> 48 + DigitValue(c)
      [] IsIn(c, Lower) -> 96 + (CHOOSE i \in 1..26 : Lower[i] = c)

\* text.encode('utf-8')
Encode(text) == [i \in 1..Len(text) |-> Utf8Code(text[i])]

ColumnText(c) ==
    CASE c = "transaction_date" ->
           <<"t", "r", "a", "n", "s", "a", "c", "t", "i", "o", "n", "_", "d", "a", "t", "e">>
      [] c = "narration" ->
           <<"n", "a", "r", "r", "a", "t", "i", "o", "n">>

\* the text pandas writes for the cell of column c in row r
CellText(r, c) ==
    CASE c = "transaction_date" -> strftime(r.transaction_date)
      [] c = "narration"        -> r.narration

RECURSIVE DoubleQuotes(_)
DoubleQuotes(t) ==
    IF t = <<>> THEN <<>>
    ELSE (IF Head(t) = "\"" THEN <<"\"", "\"">> ELSE <<Head(t)>>) \o DoubleQuotes(Tail(t))

\* csv.QUOTE_MINIMAL: a field holding the delimiter, the quote character or a
\* line break is wrapped in quotes, its quotes doubled
CsvField(t) ==
    IF \E i \in 1..Len(t) : t[i] \in {",", "\"", "\n"}
    THEN <<"\"">> \o DoubleQuotes(t) \o <<"\"">>
    ELSE t

RECURSIVE CsvLine(_)
CsvLine(fields) ==
    IF fields = <<>> THEN <<"\n">>
    ELSE IF Len(fields) = 1 THEN CsvField(fields[1]) \o <<"\n">>
    ELSE CsvField(fields[1]) \o <<",">> \o CsvLine(Tail(fields))

RECURSIVE CsvLines(_, _)
CsvLines(rs, cols) ==
    IF rs = <<>> THEN <<>>
    ELSE CsvLine([i \in 1..Len(cols) |-> CellText(Head(rs), cols[i])]) \o CsvLines(Tail(rs), cols)

\* df.to_csv(index=False): the header line, then one line per row, no index column
to_csv(df) ==
    CsvLine([i \in 1..Len(df.columns) |-> ColumnText(df.columns[i])])
        \o CsvLines(df.rows, df.columns)

\* to_excel(df): the bytes of an .xlsx file, a zip archive (it opens with the
\* local-file signature 'PK\x03\x04') holding one sheet titled 'Data' with the
\* header row and the rows, no index column. The archive is kept as its
\* signature and the sheet it decodes to.
to_excel(df) ==
    [signature |-> <<80, 75, 3, 4>>,
     sheets |-> << [title |-> "Data", header |-> df.columns,
                    cells |-> [i \in 1..Len(df.rows) |->
                                 [j \in 1..Len(df.columns) |->
                                     CellText(df.rows[i], df.columns[j])]]] >>]

\* the code points of the button labels: U+1F4E5, a space, then the words
CsvLabel == <<128229, 32, 68, 111, 119, 110, 108, 111, 97, 100, 32, 67, 83, 86>>

ExcelLabel == <<128229, 32, 68, 111, 119, 110, 108, 111, 97, 100, 32, 69, 120, 99, 101, 108>>

\* the two st.download_button calls of main
CsvDownload(df) ==
    [label |-> CsvLabel, suffix |-> "_data_export.csv", mime |-> "text/csv",
     data |-> Encode(to_csv(df))]

ExcelDownload(df) ==
    [label |-> ExcelLabel, suffix |-> "_data_export.xlsx",
     mime |-> "application/vnd.openxmlformats-officedocument.spreadsheetml.sheet",
     data |-> to_excel(df)]

-----------------------------------------------------------------------------
(* What the script renders *)

NoUi == [errors |-> {}, info |-> FALSE, branch |-> "none", records |-> 0,
         downloads |-> <<>>]

StError(u, msg, detail) == [u EXCEPT !.errors = @ \cup {[msg |-> msg, detail |-> detail]}]

-----------------------------------------------------------------------------
(* Initial state *)

RECURSIVE SeqsUpTo(_, _)
SeqsUpTo(S, n) ==
    IF n = 0 THEN {<<>>}
    ELSE LET shorter == SeqsUpTo(S, n - 1)
         IN  shorter \cup { Append(q, x) : q \in {p \in shorter : Len(p) = n - 1}, x \in S }

\* rows seeded in every relation but the deposits one
SeedRows == << [transaction_date |-> 1, narration |-> <<"a", ",", "\"", "b">>] >>

Init ==
    /\ \E rs \in SeqsUpTo(Row, MaxRows) :
          store = [t \in Relations |->
                     IF t = "data_spool.b2c_collections" THEN rs ELSE SeedRows]
    /\ pc = "idle"
    /\ caller = "none"
    /\ selected_table = ""
    /\ start_date = strftime(1)
    /\ end_date = strftime(1)
    /\ table_name = ""
    /\ chunk_size = DefaultChunkSize
    /\ conn = "none"
    /\ query = NoQuery
    /\ cursor = <<>>
    /\ has_read_data = FALSE
    /\ data = EmptyFrame
    /\ delivered = <<>>
    /\ result = None
    /\ cause = "none"
    /\ raised = "none"
    /\ ui = NoUi
    /\ prev = None
    /\ prevChunk = 0

\* a new script run or call may start
Ready == pc = "idle"

\* the locals of fetch_data_in_chunks before the call has run
FreshCall ==
    /\ conn' = "none"
    /\ query' = NoQuery
    /\ cursor' = <<>>
    /\ has_read_data' = FALSE
    /\ data' = EmptyFrame
    /\ delivered' = <<>>
    /\ result' = None
    /\ cause' = "none"

-----------------------------------------------------------------------------
(* main(), up to the call of fetch_data_in_chunks *)

\* a lookup that passes an unknown selection through as the identifier
LookupPassThrough(sel) ==
    IF sel \in DOMAIN table_mapping
    THEN [ok |-> TRUE, value |-> table_mapping[sel]]
    ELSE [ok |-> TRUE, value |-> sel]

\* table_mapping[selected_table]: the identifier, or KeyError
LookupTable(sel) ==
    IF sel \in DOMAIN table_mapping
    THEN [ok |-> TRUE, value |-> table_mapping[sel]]
    ELSE [ok |-> FALSE, value |-> ""]

MainRun(secretsOk, sel, sd, ed, clicked) ==
    /\ Ready
    /\ caller' = "main"
    /\ selected_table' = IF secretsOk THEN sel ELSE ""   \* st.stop() precedes the selectbox
    /\ FreshCall
    /\ prev' = None
    /\ prevChunk' = 0
    /\ UNCHANGED store
    /\ IF ~secretsOk
       THEN \* KeyError in st.secrets: st.error, st.stop()
            /\ ui' = StError(NoUi, "Missing key in secrets", "KeyError")
            /\ raised' = "none"
            /\ pc' = "ended"
            /\ UNCHANGED <<start_date, end_date, table_name, chunk_size>>
       ELSE IF ~LookupTable(sel).ok
       THEN \* line 85 raises KeyError, which nothing catches
            /\ ui' = NoUi
            /\ raised' = "KeyError"
            /\ pc' = "ended"
            /\ UNCHANGED <<start_date, end_date, table_name, chunk_size>>
       ELSE IF sd > ed
       THEN /\ ui' = StError(NoUi, "Start date cannot be after end date!", "")
            /\ raised' = "none"
            /\ pc' = "ended"
            /\ UNCHANGED <<start_date, end_date, table_name, chunk_size>>
       ELSE IF ~clicked
       THEN /\ ui' = NoUi
            /\ raised' = "none"
            /\ pc' = "ended"
            /\ UNCHANGED <<start_date, end_date, table_name, chunk_size>>
       ELSE /\ ui' = [NoUi EXCEPT !.info = TRUE]
            /\ raised' = "none"
            /\ start_date' = strftime(sd)
            /\ end_date' = strftime(ed)
            /\ table_name' = LookupTable(sel).value
            /\ chunk_size' = DefaultChunkSize
            /\ pc' = "connect"

-----------------------------------------------------------------------------
(* fetch_data_in_chunks called by other code *)

ApiCall(s, e, t, c) ==
    /\ Ready
    /\ caller' = "api"
    /\ selected_table' = ""
    /\ start_date' = s
    /\ end_date' = e
    /\ table_name' = t
    /\ chunk_size' = c
    /\ FreshCall
    /\ raised' = "none"
    /\ ui' = NoUi
    /\ prev' = None
    /\ prevChunk' = 0
    /\ pc' = "connect"
    /\ UNCHANGED store

\* the same query is fetched again with chunk size c
ApiRefetch(c) ==
    /\ pc = "returned"
    /\ caller = "api"
    /\ result.kind = "DataFrame"
    /\ prev' = result
    /\ prevChunk' = chunk_size
    /\ chunk_size' = c
    /\ FreshCall
    /\ ui' = NoUi
    /\ pc' = "connect"
    /\ UNCHANGED <<store, caller, selected_table, start_date, end_date, table_name, raised>>

-----------------------------------------------------------------------------
(* fetch_data_in_chunks *)

\* an except clause that hands back what was accumulated
OnExceptionPartial(acc) == acc

\* what the except clause returns, given the table accumulated so far
OnException(acc) == None

\* except Exception as e: st.error(...); return None
Except(e) ==
    /\ cause' = e
    /\ ui' = StError(ui, "Error fetching data", e)
    /\ result' = OnException(data)
    /\ pc' = "returned"

\* engine.connect()
Connect ==
    /\ pc = "connect"
    /\ \E ok \in BOOLEAN :
          IF ok
          THEN /\ conn' = "open"
               /\ pc' = "query"
               /\ UNCHANGED <<cause, ui, result>>
          ELSE /\ Except("connect")
               /\ UNCHANGED conn
    /\ UNCHANGED <<store, caller, selected_table, start_date, end_date, table_name,
                   chunk_size, query, cursor, has_read_data, data, delivered,
                   raised, prev, prevChunk>>

\* the query text is built, data = pd.DataFrame(), pd.read_sql_query executes it
ExecuteQuery ==
    /\ pc = "query"
    /\ query' = BuildQuery(table_name, start_date, end_date)
    /\ data' = EmptyFrame
    /\ \E ok \in BOOLEAN :
          IF ok /\ table_name \in DOMAIN store
          THEN /\ cursor' = QueryRows(table_name, start_date, end_date)
               /\ pc' = "loop"
               /\ UNCHANGED <<cause, ui, result>>
          ELSE /\ Except("query")
               /\ UNCHANGED cursor
    /\ UNCHANGED <<store, caller, selected_table, start_date, end_date, table_name,
                   chunk_size, conn, has_read_data, delivered, raised, prev, prevChunk>>

\* one turn of the for loop: the driver fetches the next batch and the body
\* concatenates it; when the rows are exhausted the loop ends (a query without
\* rows yields one empty batch that carries the columns)
ReadChunk ==
    /\ pc = "loop"
    /\ \E ok \in BOOLEAN :
          IF ~ok
          THEN /\ Except("read")
               /\ UNCHANGED <<cursor, has_read_data, data, delivered>>
          ELSE LET chunk == FetchMany(cursor, chunk_size) IN
               /\ UNCHANGED <<cause, ui, result>>
               /\ IF chunk # <<>>
                  THEN /\ data' = Concat(data, Frame(Columns, chunk))
                       /\ delivered' = Append(delivered, chunk)
                       /\ cursor' = Rest(cursor, chunk_size)
                       /\ has_read_data' = TRUE
                       /\ pc' = "loop"
                  ELSE /\ IF has_read_data
                          THEN UNCHANGED <<data, delivered>>
                          ELSE /\ data' = Concat(data, Frame(Columns, <<>>))
                               /\ delivered' = Append(delivered, <<>>)
                       /\ pc' = "close"
                       /\ UNCHANGED <<cursor, has_read_data>>
    /\ UNCHANGED <<store, caller, selected_table, start_date, end_date, table_name,
                   chunk_size, conn, query, raised, prev, prevChunk>>

\* conn.close(); return data. close is inside the try body: when it raises,
\* the except clause runs and the connection stays unclosed.
CloseAndReturn ==
    /\ pc = "close"
    /\ \E ok \in BOOLEAN :
          IF ok
          THEN /\ conn' = "closed"
               /\ result' = data
               /\ pc' = "returned"
               /\ UNCHANGED <<cause, ui>>
          ELSE /\ Except("close")
               /\ UNCHANGED conn
    /\ UNCHANGED <<store, caller, selected_table, start_date, end_date, table_name,
                   chunk_size, query, cursor, has_read_data, data, delivered,
                   raised, prev, prevChunk>>

-----------------------------------------------------------------------------
(* main(), after the call of fetch_data_in_chunks *)

MainRender ==
    /\ pc = "returned"
    /\ caller = "main"
    /\ IF result # None /\ result.rows # <<>>
       THEN ui' = [ui EXCEPT !.branch = "export",
                             !.records = Len(result.rows),
                             !.downloads = <<CsvDownload(result), ExcelDownload(result)>>]
       ELSE ui' = [ui EXCEPT !.branch = "no_data"]
    /\ pc' = "ended"
    /\ UNCHANGED <<store, caller, selected_table, start_date, end_date, table_name,
                   chunk_size, raised, prev, prevChunk>>
    /\ UNCHANGED fetchVars

\* the script run or the calling code is over: its locals and widgets are gone
Rerun ==
    /\ pc = "ended" \/ (pc = "returned" /\ caller = "api")
    /\ pc' = "idle"
    /\ caller' = "none"
    /\ selected_table' = ""
    /\ start_date' = strftime(1)
    /\ end_date' = strftime(1)
    /\ table_name' = ""
    /\ chunk_size' = DefaultChunkSize
    /\ FreshCall
    /\ raised' = "none"
    /\ ui' = NoUi
    /\ prev' = None
    /\ prevChunk' = 0
    /\ UNCHANGED store

-----------------------------------------------------------------------------

Next ==
    \/ \E secretsOk \in BOOLEAN, sel \in FriendlyNames \cup {UnknownFriendlyName},
          sd \in Days, ed \in Days, clicked \in BOOLEAN :
          MainRun(secretsOk, sel, sd, ed, clicked)
    \/ \E s \in DateTexts, e \in DateTexts, t \in ApiRelations, c \in 1..MaxChunk :
          ApiCall(s, e, t, c)
    \/ \E c \in 1..MaxChunk : ApiRefetch(c)
    \/ Connect
    \/ ExecuteQuery
    \/ ReadChunk
    \/ CloseAndReturn
    \/ MainRender
    \/ Rerun

Spec == Init /\ [][Next]_vars

TypeOK ==
    /\ pc \in {"idle", "connect", "query", "loop", "close", "returned", "ended"}
    /\ conn \in {"none", "open", "closed"}
    /\ Len(data.rows) <= MaxRows

-----------------------------------------------------------------------------
(* Properties *)

Returned == pc \in {"returned", "ended"}

Failed == cause # "none"

\* C1: when fetch_data_in_chunks has returned, on whatever path, the connection
\* it opened is closed.
C1_ConnectionReleased == Returned => conn # "open"

\* C2: a fetch that failed is not handled by main down the path it takes for a
\* fetch that matched no row.
C2_FailureDistinct ==
    (caller = "main" /\ pc = "ended" /\ Failed) => ui.branch # "no_data"

\* C3: a fetch that failed, also after batches were appended, returns none of
\* the rows; a table is returned only when every batch was read without failure.
C3_AllOrNothing ==
    Returned =>
        /\ Failed => result = None
        /\ result.kind = "DataFrame" => (~Failed /\ cursor = <<>> /\ conn = "closed")

C3_Witness ==
    /\ pc = "returned"
    /\ cause = "read"
    /\ Len(delivered) >= 1
    /\ data.rows # <<>>
    /\ result = None

\* C4: while the batches are consumed the accumulated table is the
\* concatenation of the batches delivered so far, in arrival order, each no
\* larger than chunk_size; the table returned is the rows of the query in the
\* order of the source.
C4_ConcatInOrder ==
    /\ pc \in {"loop", "close"} =>
          /\ data.rows = Flatten(delivered)
          /\ \A i \in 1..Len(delivered) : Len(delivered[i]) <= chunk_size
          /\ data.rows \o cursor = QueryRows(table_name, start_date, end_date)
    /\ (Returned /\ result.kind = "DataFrame") =>
          /\ result.rows = Flatten(delivered)
          /\ result.rows = QueryRows(table_name, start_date, end_date)

C4_Witness ==
    /\ pc = "returned"
    /\ result.kind = "DataFrame"
    /\ Len(delivered) >= 2
    /\ Len(result.rows) >= 3
    /\ result.rows[1] # result.rows[2]
    /\ result.rows[1] = result.rows[3]

\* C5: two successful fetches of the same table and date range from the same
\* source return the same table (rows, their order, columns) whatever their
\* chunk sizes.
C5_ChunkSizeIndependent ==
    (pc = "returned" /\ result.kind = "DataFrame" /\ prev.kind = "DataFrame") =>
        result = prev

C5_Witness ==
    /\ pc = "returned"
    /\ result.kind = "DataFrame"
    /\ prev.kind = "DataFrame"
    /\ prevChunk # chunk_size
    /\ Len(result.rows) >= 2
    /\ Len(delivered) >= 2

\* C6: a fetch given a start date after the end date opens no connection and
\* issues no query.
C6_NoIoOnReversedRange ==
    SqlDate(start_date) > SqlDate(end_date) => (conn = "none" /\ query = NoQuery)

\* C7: a selection that is not a key of the friendly-name mapping is rejected
\* with an error before any connection is opened or query built.
C7_UnknownSelectionRejected ==
    (caller = "main" /\ selected_table \notin FriendlyNames \cup {""}) =>
        /\ raised = "KeyError"
        /\ pc = "ended"
        /\ conn = "none"
        /\ query = NoQuery

C7_Witness ==
    /\ caller = "main"
    /\ selected_table = UnknownFriendlyName
    /\ raised = "KeyError"
    /\ pc = "ended"

\* C8: after a successful fetch that matched no row, main offers both exports.
C8_EmptyResultExported ==
    (caller = "main" /\ pc = "ended" /\ result.kind = "DataFrame" /\ result.rows = <<>>) =>
        (ui.branch = "export" /\ Len(ui.downloads) = 2)

\* C9: the identifier in every query text built is one of the allow-list, the
\* values of the friendly-name mapping.
C9_IdentifierAllowListed ==
    query # NoQuery => query.from \in KnownIdentifiers

\* the first two bytes of a gzip member
IsGzipContainer(bytes) == Len(bytes) >= 2 /\ bytes[1] = 31 /\ bytes[2] = 139

\* C10: the delimited-text export offered for download is a gzip container
\* (from which the table is to be recovered by decompressing and parsing).
C10_CsvExportIsGzip ==
    \A i \in 1..Len(ui.downloads) :
        ui.downloads[i].mime = "text/csv" => IsGzipContainer(ui.downloads[i].data)

====
